---------------------------- MODULE Spec2Model ----------------------------
(***************************************************************************)
(* Control evaluation and gating engine of the compliance form viewer:     *)
(* status derivation (schema.ts getControlStatus), rule-based visibility   *)
(* (checkVisibility) and per-group scoring (getGroupScore), driven by      *)
(* answer-change events.                                                   *)
(*                                                                         *)
(* Strings are sequences of one-character strings, so that trimming,       *)
(* concatenation (`${id}_detail`) and prefix tests are computed and not    *)
(* assumed.  A JavaScript object used as a map is a function whose DOMAIN  *)
(* is the set of keys present.                                             *)
(***************************************************************************)
EXTENDS Integers, Sequences, FiniteSets, TLC

VARIABLES
    controls,       \* SectionData.controls of the rendered form
    groups,         \* SectionData.groups
    rules,          \* SectionData.rules
    introAnswers,   \* intro form answers (global to the session)
    answers,        \* current form answers, detail answers, sub-type selections
    status,         \* rendered status indicator of every control
    visible,        \* rendered visibility of every control and group
    score,          \* rendered completion score of every group
    audit,          \* coverage audit run: per-form inputs, reports, summary
    merge,          \* feedback merge run: artifact, feedback file, outputs
    validation,     \* validator run: candidate artifact and position
    links,          \* form-link panels: expanded flag and fetch cache
    saver           \* feedback editor: pending debounced writes per form

viewerVars == <<controls, groups, rules, introAnswers, answers, status, visible, score>>

pipelineVars == <<audit, merge, validation>>

panelVars == <<links, saver>>

vars == <<controls, groups, rules, introAnswers, answers, status, visible, score,
          audit, merge, validation, links, saver>>

---------------------------------------------------------------------------
(* Bounds *)

\* Largest number of rules in the rule list of the rendered form.
MaxRules == 2

---------------------------------------------------------------------------
(* String literals *)

YES == <<"Y", "e", "s">>
NO == <<"N", "o">>
NA == <<"N", "/", "A">>
EMPTY == << >>
BLANK == <<" ">>
BLANKS == <<" ", "\t">>
OK == <<"o", "k">>
OK_PADDED == <<" ", "o", "k", " ">>
DETAIL_SUFFIX == <<"_", "d", "e", "t", "a", "i", "l">>

\* The value of a missing property; no string equals it.
Undefined == <<"undefined">>

ID_4_1 == <<"4", "_", "1">>
ID_4_1_a == <<"4", "_", "1", "_", "a">>
ID_4_2 == <<"4", "_", "2">>
GROUP_G1 == <<"g", "1">>
GROUP_G1_B == <<"g", "1", "-", "b">>
SUB_DOMESTIC == <<"s", "u", "b", "-", "d", "o", "m", "e", "s", "t", "i", "c">>
UNRELATED == <<"z", "z", "z">>

---------------------------------------------------------------------------
(* JavaScript primitives used by the code *)

\* obj[key]
Get(obj, key) == IF key \in DOMAIN obj THEN obj[key] ELSE Undefined

\* obj[key] = value
Put(obj, key, value) ==
    [k \in DOMAIN obj \cup {key} |-> IF k = key THEN value ELSE obj[k]]

\* delete obj[key]
Remove(obj, key) == [k \in DOMAIN obj \ {key} |-> obj[k]]

\* !x for a string or undefined
Falsy(x) == x = Undefined \/ x = EMPTY

IsSpace(ch) == ch \in {" ", "\t", "\n"}

RECURSIVE TrimStart(_)
TrimStart(s) ==
    IF s # EMPTY /\ IsSpace(Head(s)) THEN TrimStart(Tail(s)) ELSE s

RECURSIVE TrimEnd(_)
TrimEnd(s) ==
    IF s # EMPTY /\ IsSpace(s[Len(s)])
    THEN TrimEnd(SubSeq(s, 1, Len(s) - 1))
    ELSE s

\* String.prototype.trim
Trim(s) == TrimEnd(TrimStart(s))

\* String.prototype.startsWith
StartsWith(s, prefix) ==
    Len(prefix) <= Len(s) /\ SubSeq(s, 1, Len(prefix)) = prefix

---------------------------------------------------------------------------
(* Records *)

Control(id, detailRequired, correctOption, group) ==
    [f \in {"id", "detail-required", "correct-option", "group"} |->
        CASE f = "id" -> id
          [] f = "detail-required" -> detailRequired
          [] f = "correct-option" -> correctOption
          [] f = "group" -> group]

Group(id, variant) == [id |-> id, variant |-> variant]

Rule(target, scope, effect, const) ==
    [target |-> target, scope |-> scope, effect |-> effect,
     schema |-> [const |-> const]]

ControlStatus == {"pending", "success", "warning", "error"}

DetailKeyLetter(id) == id \o <<"_", "a">>

DetailKey(id) == id \o DETAIL_SUFFIX

---------------------------------------------------------------------------
(* Status evaluation *)

getControlStatusDetailFirst(control, data) ==
    LET answer == Get(data, control["id"])
        detail == Get(data, DetailKey(control["id"]))
    IN  IF answer = Undefined \/ answer = EMPTY THEN "pending"
        ELSE IF Falsy(control["correct-option"]) \/ control["correct-option"] = NA
        THEN "success"
        ELSE IF control["detail-required"] /\ (Falsy(detail) \/ Trim(detail) = EMPTY)
        THEN "warning"
        ELSE IF answer # control["correct-option"] THEN "error"
        ELSE "success"

getControlStatusGateChecked(control, data) ==
    LET answer == Get(data, control["id"])
        detail == Get(data, DetailKey(control["id"]))
    IN  IF answer = Undefined \/ answer = EMPTY THEN "pending"
        ELSE IF answer # control["correct-option"] THEN "error"
        ELSE IF control["detail-required"] /\ (Falsy(detail) \/ Trim(detail) = EMPTY)
        THEN "warning"
        ELSE "success"

getControlStatus(control, data) ==
    LET answer == Get(data, control["id"])
        detail == Get(data, DetailKey(control["id"]))
    IN  IF answer = Undefined \/ answer = EMPTY THEN "pending"
        ELSE IF Falsy(control["correct-option"]) \/ control["correct-option"] = NA
        THEN "success"
        ELSE IF answer # control["correct-option"] THEN "error"
        ELSE IF control["detail-required"] /\ (Falsy(detail) \/ Trim(detail) = EMPTY)
        THEN "warning"
        ELSE "success"

---------------------------------------------------------------------------
(* Visibility *)

ScopeAnswerFormFirst(scope, intro, form) ==
    IF scope \in DOMAIN form THEN form[scope] ELSE Get(intro, scope)

\* Answers checked in order: intro form answers, then current form answers.
ScopeAnswer(scope, intro, form) ==
    IF scope \in DOMAIN intro THEN intro[scope] ELSE Get(form, scope)

RuleSatisfiedDefaultNo(rule, intro, form) ==
    LET value == ScopeAnswer(rule.scope, intro, form)
    IN  (IF value = Undefined THEN NO ELSE value) = rule.schema.const

\* The scope control's value must equal the rule's constant.
RuleSatisfied(rule, intro, form) ==
    ScopeAnswer(rule.scope, intro, form) = rule.schema.const

RulesFor(id, ruleList) == {r \in ruleList : r.target = id}

ShowRulesFor(id, ruleList) == {r \in RulesFor(id, ruleList) : r.effect = "SHOW"}

HideRulesFor(id, ruleList) == {r \in RulesFor(id, ruleList) : r.effect = "HIDE"}

checkVisibilityAll(id, ruleList, intro, form) ==
    \A r \in ShowRulesFor(id, ruleList) : RuleSatisfied(r, intro, form)

checkVisibilityAnyRule(id, ruleList, intro, form) ==
    \E r \in ShowRulesFor(id, ruleList) : RuleSatisfied(r, intro, form)

checkVisibilityFirstRule(id, ruleList, intro, form) ==
    \/ ShowRulesFor(id, ruleList) = {}
    \/ RuleSatisfied(CHOOSE r \in ShowRulesFor(id, ruleList) : TRUE, intro, form)

checkVisibilityWithHide(id, ruleList, intro, form) ==
    /\ \A r \in HideRulesFor(id, ruleList) : ~RuleSatisfied(r, intro, form)
    /\ \/ ShowRulesFor(id, ruleList) = {}
       \/ \E r \in ShowRulesFor(id, ruleList) : RuleSatisfied(r, intro, form)

\* The viewer's checkVisibility: HIDE rules are not supported.
checkVisibility(id, ruleList, intro, form) ==
    IF ShowRulesFor(id, ruleList) = {}
    THEN TRUE
    ELSE \E r \in ShowRulesFor(id, ruleList) : RuleSatisfied(r, intro, form)

\* Design document, section 4.2: the logical OR over the target's rules.
isVisibleOr(id, ruleList, intro, form) ==
    \/ RulesFor(id, ruleList) = {}
    \/ \E r \in RulesFor(id, ruleList) :
            RuleSatisfied(r, intro, form) = (r.effect = "SHOW")

\* Design document, section 4.2: the precise formula.
isVisiblePrecise(id, ruleList, intro, form) ==
    /\ \/ \E r \in ShowRulesFor(id, ruleList) : RuleSatisfied(r, intro, form)
       \/ ShowRulesFor(id, ruleList) = {}
    /\ ~\E r \in HideRulesFor(id, ruleList) : RuleSatisfied(r, intro, form)

---------------------------------------------------------------------------
(* Group scoring *)

InGroupPrefix(control, groupId) == StartsWith(control["group"], groupId)

\* control.group === groupId
InGroup(control, groupId) == control["group"] = groupId

\* The controls a group's score counts.
ScoredControls(groupId, controlList, ruleList, intro, form) ==
    {c \in controlList :
        InGroup(c, groupId) /\ checkVisibility(c["id"], ruleList, intro, form)}

getGroupScore(groupId, controlList, ruleList, intro, form) ==
    LET scored == ScoredControls(groupId, controlList, ruleList, intro, form)
        count(s) == Cardinality({c \in scored : getControlStatus(c, form) = s})
    IN  [success |-> count("success"),
         warning |-> count("warning"),
         error |-> count("error"),
         pending |-> count("pending"),
         total |-> Cardinality(scored),
         percent |-> IF scored = {}
                     THEN {}
                     ELSE {(100 * count("success")) \div Cardinality(scored)}]

---------------------------------------------------------------------------
(* The rendered form *)

ControlIds == {c["id"] : c \in controls}

GroupIds == {g.id : g \in groups}

Targets == ControlIds \cup GroupIds

ControlById(id) == CHOOSE c \in controls : c["id"] = id

RecomputeIncremental(intro, form) ==
    /\ status' = [id \in ControlIds |-> getControlStatus(ControlById(id), form)]
    /\ visible' = [id \in Targets |-> visible[id] \/ checkVisibility(id, rules, intro, form)]
    /\ score' = [g \in GroupIds |-> getGroupScore(g, controls, rules, intro, form)]

\* A full recompute pass over the answer snapshot.
Recompute(intro, form) ==
    /\ status' = [id \in ControlIds |-> getControlStatus(ControlById(id), form)]
    /\ visible' = [id \in Targets |-> checkVisibility(id, rules, intro, form)]
    /\ score' = [g \in GroupIds |-> getGroupScore(g, controls, rules, intro, form)]

\* The user answers a control or types a detail.
SetAnswer(key, value) ==
    /\ answers' = Put(answers, key, value)
    /\ Recompute(introAnswers, answers')
    /\ UNCHANGED <<controls, groups, rules, introAnswers>>
    /\ UNCHANGED <<pipelineVars, panelVars>>

\* An answer is removed from the answer map.
ClearAnswer(key) ==
    /\ key \in DOMAIN answers
    /\ answers' = Remove(answers, key)
    /\ Recompute(introAnswers, answers')
    /\ UNCHANGED <<controls, groups, rules, introAnswers>>
    /\ UNCHANGED <<pipelineVars, panelVars>>

\* Selecting a sub-type sets answers[sub.id] = "Yes".
SelectSubType(sub) ==
    /\ answers' = Put(answers, sub, YES)
    /\ Recompute(introAnswers, answers')
    /\ UNCHANGED <<controls, groups, rules, introAnswers>>
    /\ UNCHANGED <<pipelineVars, panelVars>>

\* The intro form records an answer.
SetIntroAnswer(key, value) ==
    /\ introAnswers' = Put(introAnswers, key, value)
    /\ Recompute(introAnswers', answers)
    /\ UNCHANGED <<controls, groups, rules, answers>>
    /\ UNCHANGED <<pipelineVars, panelVars>>

\* The intro form drops an answer.
ClearIntroAnswer(key) ==
    /\ key \in DOMAIN introAnswers
    /\ introAnswers' = Remove(introAnswers, key)
    /\ Recompute(introAnswers', answers)
    /\ UNCHANGED <<controls, groups, rules, answers>>
    /\ UNCHANGED <<pipelineVars, panelVars>>

---------------------------------------------------------------------------
(* Inputs *)

DefaultGroups == {Group(GROUP_G1, "main"), Group(GROUP_G1_B, "subprocess")}

DefaultControls ==
    {Control(ID_4_1, FALSE, YES, GROUP_G1),
     Control(ID_4_1_a, TRUE, NO, GROUP_G1),
     Control(ID_4_2, FALSE, NA, GROUP_G1_B)}

SubTypeIds == {SUB_DOMESTIC}

RuleUniverse ==
    {Rule(t, s, e, c) : t \in {GROUP_G1, ID_4_1}, s \in {SUB_DOMESTIC, ID_4_2},
                        e \in {"SHOW", "HIDE"}, c \in {YES, NO}}
    \cup {Rule(ID_4_2, SUB_DOMESTIC, "SHOW", YES)}

RuleSets == {rs \in SUBSET RuleUniverse : Cardinality(rs) <= MaxRules}

\* Answer events of the gated form: <<key, value>>.
FormInputs ==
    {<<ID_4_1, YES>>, <<ID_4_1, NO>>, <<ID_4_2, YES>>,
     <<SUB_DOMESTIC, NO>>, <<UNRELATED, YES>>}

IntroInputs == {<<SUB_DOMESTIC, YES>>, <<SUB_DOMESTIC, NO>>}

NoAnswers == [k \in {} |-> EMPTY]

\* A subsystem that is not running.
Idle == [pc |-> "idle"]

PipelineIdle == audit = Idle /\ merge = Idle /\ validation = Idle

PanelsIdle == links = Idle /\ saver = Idle

InitRendered ==
    /\ introAnswers = NoAnswers
    /\ answers = NoAnswers
    /\ status = [id \in ControlIds |-> getControlStatus(ControlById(id), answers)]
    /\ visible = [id \in Targets |-> checkVisibility(id, rules, introAnswers, answers)]
    /\ score = [g \in GroupIds |->
                    getGroupScore(g, controls, rules, introAnswers, answers)]

Init ==
    /\ controls = DefaultControls
    /\ groups = DefaultGroups
    /\ rules \in RuleSets
    /\ InitRendered
    /\ PipelineIdle
    /\ PanelsIdle

Next ==
    \/ \E in \in FormInputs : SetAnswer(in[1], in[2])
    \/ \E in \in FormInputs : ClearAnswer(in[1])
    \/ \E sub \in SubTypeIds : SelectSubType(sub)
    \/ \E in \in IntroInputs : SetIntroAnswer(in[1], in[2])
    \/ \E in \in IntroInputs : ClearIntroAnswer(in[1])

Spec == Init /\ [][Next]_vars

---------------------------------------------------------------------------
(* Status evaluation over every control configuration *)

StatusControlSets ==
    {{Control(ID_4_1, dr, co, GROUP_G1), Control(ID_4_1_a, TRUE, YES, GROUP_G1_B)} :
        dr \in BOOLEAN, co \in {YES, NO, NA, Undefined}}

StatusInputs ==
    {<<ID_4_1, v>> : v \in {EMPTY, YES, NO, NA}}
    \cup {<<DetailKey(ID_4_1), v>> : v \in {EMPTY, BLANK, BLANKS, OK, OK_PADDED}}
    \cup {<<ID_4_1_a, YES>>, <<DetailKey(ID_4_1_a), OK>>}

InitStatus ==
    /\ controls \in StatusControlSets
    /\ groups = DefaultGroups
    /\ rules = {Rule(GROUP_G1, SUB_DOMESTIC, "SHOW", YES)}
    /\ InitRendered
    /\ PipelineIdle
    /\ PanelsIdle

NextStatus ==
    \/ \E in \in StatusInputs : SetAnswer(in[1], in[2])
    \/ \E in \in StatusInputs : ClearAnswer(in[1])

SpecStatus == InitStatus /\ [][NextStatus]_vars

---------------------------------------------------------------------------
(* Properties of the status evaluation *)

Unanswered(id) == id \notin DOMAIN answers \/ answers[id] = EMPTY

DetailMissing(id) ==
    \/ DetailKey(id) \notin DOMAIN answers
    \/ \A i \in 1..Len(answers[DetailKey(id)]) : IsSpace(answers[DetailKey(id)][i])

\* C1: for a control whose correct-option is Yes or No the status is pending
\* iff the answer is absent or empty; otherwise error iff the answer differs
\* from correct-option, whatever detail-required and the detail answer are;
\* otherwise warning iff detail-required and the detail answer is absent or
\* blank; otherwise success.
C1_StatusDecisionOrder ==
    \A c \in controls :
        c["correct-option"] \in {YES, NO} =>
            LET id == c["id"]
                matches == answers[id] = c["correct-option"]
            IN  /\ status[id] = "pending" <=> Unanswered(id)
                /\ ~Unanswered(id) => (status[id] = "error" <=> ~matches)
                /\ (~Unanswered(id) /\ matches) =>
                       (status[id] = "warning" <=>
                            (c["detail-required"] /\ DetailMissing(id)))
                /\ (~Unanswered(id) /\ matches
                        /\ ~(c["detail-required"] /\ DetailMissing(id))) =>
                       status[id] = "success"

\* C1 witness: a correct answer with a whitespace-only detail is a warning,
\* and a wrong answer with no detail is an error.
C1_Witness ==
    \E c \in controls :
        /\ c["correct-option"] = YES
        /\ c["detail-required"]
        /\ Get(answers, c["id"]) = YES
        /\ Get(answers, DetailKey(c["id"])) = BLANKS
        /\ status[c["id"]] = "warning"

\* C2: for a control whose correct-option is "N/A" or absent every non-empty
\* answer is a success, whatever detail-required and the detail answer are,
\* and the status is never error or warning.
C2_ScopeGateAlwaysSuccess ==
    \A c \in controls :
        (c["correct-option"] = NA \/ c["correct-option"] = Undefined) =>
            /\ ~Unanswered(c["id"]) => status[c["id"]] = "success"
            /\ status[c["id"]] \notin {"error", "warning"}

\* C2 witness: no correct-option, detail required and missing, answer "No".
C2_Witness ==
    \E c \in controls :
        /\ c["correct-option"] = Undefined
        /\ c["detail-required"]
        /\ Get(answers, c["id"]) = NO
        /\ DetailKey(c["id"]) \notin DOMAIN answers
        /\ status[c["id"]] = "success"

\* C3: with detail-required, a missing or blank detail is a warning only when
\* the control's answer is "Yes", never when it is "No".
C3_DetailOnlyForYes ==
    \A c \in controls :
        (c["detail-required"] /\ status[c["id"]] = "warning") =>
            Get(answers, c["id"]) = YES

---------------------------------------------------------------------------
(* Properties of the visibility gate *)

AllShow(id) == RulesFor(id, rules) # {} /\ HideRulesFor(id, rules) = {}

SingleHide(id) ==
    ShowRulesFor(id, rules) = {} /\ Cardinality(HideRulesFor(id, rules)) = 1

\* C4 as stated: for every target with at least one rule the logical OR over
\* its rules equals the precise formula.
C4_OrEqualsPrecise ==
    \A t \in Targets :
        RulesFor(t, rules) # {} =>
            isVisibleOr(t, rules, introAnswers, answers)
                = isVisiblePrecise(t, rules, introAnswers, answers)

\* C4 amended: the logical OR equals the precise formula when the target's
\* rules are all SHOW rules, and then both are the rendered visibility, or
\* when the target has a single HIDE rule and no SHOW rule.
C4_OrEqualsPreciseOnShowRules ==
    \A t \in Targets :
        /\ AllShow(t) =>
              /\ isVisibleOr(t, rules, introAnswers, answers)
                    = isVisiblePrecise(t, rules, introAnswers, answers)
              /\ isVisiblePrecise(t, rules, introAnswers, answers) = visible[t]
        /\ SingleHide(t) =>
              isVisibleOr(t, rules, introAnswers, answers)
                  = isVisiblePrecise(t, rules, introAnswers, answers)

\* C4 witness: a target with two SHOW rules, one satisfied and one not.
C4_Witness ==
    \E t \in Targets :
        /\ AllShow(t)
        /\ \E r1, r2 \in RulesFor(t, rules) :
              /\ RuleSatisfied(r1, introAnswers, answers)
              /\ ~RuleSatisfied(r2, introAnswers, answers)
        /\ visible[t]
        /\ isVisibleOr(t, rules, introAnswers, answers)

G1_SHOW_SUB_DOMESTIC == Rule(GROUP_G1, SUB_DOMESTIC, "SHOW", YES)

\* C5: a target without SHOW rules is visible; a target with SHOW rules is
\* visible iff at least one of them is satisfied; a group whose only rule is
\* SHOW on sub-domestic = "Yes" is hidden for the empty answer map, visible
\* for sub-domestic "Yes" and hidden for sub-domestic "No".
C5_ShowRulesOrSemantics ==
    /\ \A t \in Targets :
          LET show == {r \in rules : r.target = t /\ r.effect = "SHOW"}
              satisfied(r) ==
                  IF r.scope \in DOMAIN introAnswers
                  THEN introAnswers[r.scope] = r.schema.const
                  ELSE r.scope \in DOMAIN answers
                          /\ answers[r.scope] = r.schema.const
          IN  /\ show = {} => visible[t]
              /\ show # {} => (visible[t] <=> \E r \in show : satisfied(r))
    /\ (RulesFor(GROUP_G1, rules) = {G1_SHOW_SUB_DOMESTIC}
            /\ introAnswers = NoAnswers) =>
          /\ answers = NoAnswers => ~visible[GROUP_G1]
          /\ Get(answers, SUB_DOMESTIC) = YES => visible[GROUP_G1]
          /\ Get(answers, SUB_DOMESTIC) = NO => ~visible[GROUP_G1]

\* C5 witness: the group's only rule is the sub-domestic SHOW rule and the
\* sub-type has been selected.
C5_Witness ==
    /\ RulesFor(GROUP_G1, rules) = {G1_SHOW_SUB_DOMESTIC}
    /\ introAnswers = NoAnswers
    /\ Get(answers, SUB_DOMESTIC) = YES
    /\ visible[GROUP_G1]

\* C6: a target that no rule targets is visible for every rule list and
\* every answer map.
C6_NoRulesAlwaysVisible ==
    \A t \in Targets : (\A r \in rules : r.target # t) => visible[t]

\* C6 witness: rules exist, one of them hides its target, the answer map
\* holds an unrelated key, and a target without rules is visible.
C6_Witness ==
    /\ UNRELATED \in DOMAIN answers
    /\ \E t \in Targets : RulesFor(t, rules) # {} /\ ~visible[t]
    /\ \E t \in Targets : RulesFor(t, rules) = {} /\ visible[t]

\* The step turns the answer looked up for the rule's scope from a value
\* that does not match the rule's const into one that matches it.
BecomesMatching(r) ==
    /\ ScopeAnswer(r.scope, introAnswers, answers) # r.schema.const
    /\ ScopeAnswer(r.scope, introAnswers', answers') = r.schema.const

ShowMonotonic ==
    \A r \in rules :
        (r.effect = "SHOW" /\ BecomesMatching(r)) =>
            (visible[r.target] => visible'[r.target])

HideMonotonic ==
    \A r \in rules :
        (r.effect = "HIDE" /\ BecomesMatching(r)) =>
            ~(~visible[r.target] /\ visible'[r.target])

HideMonotonicUnlessShown ==
    \A r \in rules :
        (r.effect = "HIDE" /\ BecomesMatching(r)) =>
            ((~visible[r.target] /\ visible'[r.target]) =>
                Rule(r.target, r.scope, "SHOW", r.schema.const) \in rules)

C8_IntroTakesPrecedence ==
    /\ \A r \in rules :
          /\ (r.scope \in DOMAIN introAnswers /\ r.scope \in DOMAIN answers
                  /\ introAnswers[r.scope] # answers[r.scope]) =>
                (RuleSatisfied(r, introAnswers, answers)
                    <=> introAnswers[r.scope] = r.schema.const)
          /\ r.scope \notin DOMAIN introAnswers =>
                (RuleSatisfied(r, introAnswers, answers)
                    <=> Get(answers, r.scope) = r.schema.const)
    /\ \A t \in Targets : \A r \in rules :
          (ShowRulesFor(t, rules) = {r}
              /\ r.scope \in DOMAIN introAnswers /\ r.scope \in DOMAIN answers) =>
                (visible[t] <=> introAnswers[r.scope] = r.schema.const)

\* C8 witness: intro says "Yes", the form says "No", and the target of a
\* SHOW rule on "Yes" is visible.
C8_Witness ==
    \E r \in rules :
        /\ ShowRulesFor(r.target, rules) = {r}
        /\ r.schema.const = YES
        /\ Get(introAnswers, r.scope) = YES
        /\ Get(answers, r.scope) = NO
        /\ visible[r.target]

\* Keys that are a control id, a detail key, a sub-type id or a rule scope.
ArtifactKeys ==
    ControlIds \cup {DetailKey(id) : id \in ControlIds} \cup SubTypeIds
        \cup {r.scope : r \in rules}

ScopeUnknown(r) ==
    r.scope \notin DOMAIN introAnswers /\ r.scope \notin DOMAIN answers

UnknownScopeNeverSatisfied ==
    /\ \A r \in rules : ScopeUnknown(r) => ~RuleSatisfied(r, introAnswers, answers)
    /\ \A t \in Targets :
          (ShowRulesFor(t, rules) # {}
              /\ \A r \in ShowRulesFor(t, rules) : ScopeUnknown(r)) => ~visible[t]

OnlyUnrelatedKeysChange ==
    /\ introAnswers' = introAnswers
    /\ answers' # answers
    /\ \A k \in DOMAIN answers \cup DOMAIN answers' :
          Get(answers, k) # Get(answers', k) => k \notin ArtifactKeys

\* C9: a rule whose scope has no entry in any answer map is not satisfied,
\* whatever its const; a change of the answer map at keys that are no control
\* id, detail key, sub-type id or rule scope changes no visibility and no
\* status.
C9_MismatchHasNoEffect ==
    /\ []UnknownScopeNeverSatisfied
    /\ [][OnlyUnrelatedKeysChange => (visible' = visible /\ status' = status)]_vars

\* C9 witness: the answer map holds an unrelated key, and a target is hidden
\* because the scope of its SHOW rule has no entry in any answer map.
C9_Witness ==
    /\ UNRELATED \in DOMAIN answers
    /\ \E r \in rules :
          /\ r.effect = "SHOW"
          /\ ScopeUnknown(r)
          /\ ~visible[r.target]

---------------------------------------------------------------------------
(* Properties of the group score *)

\* The controls of the group that are rendered visible.
VisibleMembers(g) == {c \in controls : c["group"] = g /\ visible[c["id"]]}

ScoreCountsVisibleMembers ==
    \A g \in GroupIds :
        LET members == VisibleMembers(g)
            n(s) == Cardinality({c \in members : status[c["id"]] = s})
        IN  /\ score[g].total = Cardinality(members)
            /\ score[g].success = n("success")
            /\ score[g].warning = n("warning")
            /\ score[g].error = n("error")
            /\ score[g].pending = n("pending")
            /\ members = {} => score[g].percent = {}
            /\ members # {} =>
                  score[g].percent = {(100 * n("success")) \div Cardinality(members)}

ChangedKeys ==
    {k \in DOMAIN answers \cup DOMAIN answers' : Get(answers, k) # Get(answers', k)}

\* The step changes only the answer or the detail answer of controls that
\* are hidden or belong to another group.
AnswersOutside(g) ==
    /\ introAnswers' = introAnswers
    /\ ChangedKeys # {}
    /\ \A k \in ChangedKeys :
          \E c \in controls :
              /\ k = c["id"] \/ k = DetailKey(c["id"])
              /\ c["group"] # g \/ ~visible[c["id"]]

MembersKeepVisibility(g) ==
    \A c \in controls : c["group"] = g => visible'[c["id"]] = visible[c["id"]]

\* C10 as stated: the score counts exactly the visible controls whose group
\* field equals the group id, is empty for a group without visible controls,
\* and is unchanged by answering a hidden control or a control of another
\* group.
C10_ScoreCountsVisibleMembers ==
    /\ []ScoreCountsVisibleMembers
    /\ [][\A g \in GroupIds : AnswersOutside(g) => score'[g] = score[g]]_vars

\* C10 amended: as stated, except that answering a hidden control or a
\* control of another group leaves the score unchanged only when the answer
\* changes the visibility of no control of the group.
C10_ScoreCountsVisibleMembersGated ==
    /\ []ScoreCountsVisibleMembers
    /\ [][\A g \in GroupIds :
              (AnswersOutside(g) /\ MembersKeepVisibility(g)) =>
                  score'[g] = score[g]]_vars

\* C10 witness: a hidden control of a group is answered and not counted,
\* and another group has no visible control and an empty score.
C10_Witness ==
    /\ ~visible[ID_4_1]
    /\ Get(answers, ID_4_1) = YES
    /\ score[GROUP_G1].total = 1
    /\ ~visible[ID_4_2]
    /\ Get(answers, ID_4_2) = YES
    /\ score[GROUP_G1_B].total = 0
    /\ score[GROUP_G1_B].percent = {}

---------------------------------------------------------------------------
(* Stage 4: deterministic coverage audit *)

\* mapping-confidence is kept in tenths; controls below 0.5 are flagged.
LowConfidenceTenths == 5

Range(seq) == {seq[i] : i \in DOMAIN seq}

TextNode(code) == [code |-> code]

AuditedControl(id, sourceRules, confidence) ==
    [id |-> id, sourceRules |-> sourceRules, confidence |-> confidence]

\* All rule codes from source text nodes.
extract_input_rule_codes(nodes) == {n.code : n \in Range(nodes)}

\* All source-rules from generated controls.
extract_output_rule_codes(controlList) ==
    UNION {Range(c.sourceRules) : c \in Range(controlList)}

compute_coverage_reportExtraIsOutput(input, output) ==
    [mapped |-> input \cap output,
     unmapped |-> input \ output,
     extra |-> output]

\* Set arithmetic comparing input rule codes against output source-rules.
compute_coverage_report(input, output) ==
    [mapped |-> input \cap output,
     unmapped |-> input \ output,
     extra |-> output \ input]

low_confidence(controlList) ==
    {c.id : c \in {d \in Range(controlList) : d.confidence < LowConfidenceTenths}}

NoReport == [pc |-> "none"]

AuditStart(forms, previous) ==
    [pc |-> "auditing", forms |-> forms, remaining |-> DOMAIN forms,
     reports |-> [f \in {} |-> NoReport], allInput |-> {}, allOutput |-> {},
     summary |-> NoReport, previous |-> previous]

\* One process form is audited; the order of the forms is not fixed.
AuditForm(f) ==
    /\ audit.pc = "auditing"
    /\ f \in audit.remaining
    /\ LET input == extract_input_rule_codes(audit.forms[f].nodes)
           output == extract_output_rule_codes(audit.forms[f].controls)
           report == [coverage |-> compute_coverage_report(input, output),
                      low_confidence |-> low_confidence(audit.forms[f].controls)]
       IN audit' = [audit EXCEPT !.remaining = @ \ {f},
                                 !.reports = Put(@, f, report),
                                 !.allInput = @ \cup input,
                                 !.allOutput = @ \cup output]
    /\ UNCHANGED <<viewerVars, merge, validation, panelVars>>

WriteSummaryMerged ==
    /\ audit.pc = "auditing"
    /\ audit.remaining = {}
    /\ audit' = [audit EXCEPT
           !.pc = "done",
           !.summary =
               [mapped |-> UNION {audit.reports[f].coverage.mapped : f \in DOMAIN audit.reports},
                unmapped |-> UNION {audit.reports[f].coverage.unmapped : f \in DOMAIN audit.reports},
                extra |-> UNION {audit.reports[f].coverage.extra : f \in DOMAIN audit.reports}]]
    /\ UNCHANGED <<viewerVars, merge, validation, panelVars>>

\* _coverage_audit.json: the summary over the union of all forms' code sets.
WriteSummary ==
    /\ audit.pc = "auditing"
    /\ audit.remaining = {}
    /\ audit' = [audit EXCEPT
           !.pc = "done",
           !.summary = compute_coverage_report(audit.allInput, audit.allOutput)]
    /\ UNCHANGED <<viewerVars, merge, validation, panelVars>>

\* The audit is run again over the same inputs.
RerunAudit ==
    /\ audit.pc = "done"
    /\ audit' = AuditStart(audit.forms, audit.summary)
    /\ UNCHANGED <<viewerVars, merge, validation, panelVars>>

AuditFormIds == {"cdd-individuals", "cdd-companies"}

NodeLists ==
    {<< >>,
     <<TextNode("4.1"), TextNode("4.2"), TextNode("4.3")>>,
     <<TextNode("4.2"), TextNode("4.2")>>,
     <<TextNode("4.4")>>}

AuditedControlLists ==
    {<< >>,
     <<AuditedControl(ID_4_1, <<"4.1", "4.4">>, 9)>>,
     <<AuditedControl(ID_4_1, <<"4.1">>, 3), AuditedControl(ID_4_2, <<"4.2", "4.1">>, 9)>>}

AuditInputs ==
    [AuditFormIds -> {[nodes |-> n, controls |-> c] : n \in NodeLists, c \in AuditedControlLists}]

ViewerIdle ==
    /\ controls = {}
    /\ groups = {}
    /\ rules = {}
    /\ InitRendered

InitAudit ==
    /\ ViewerIdle
    /\ audit \in {AuditStart(forms, NoReport) : forms \in AuditInputs}
    /\ merge = Idle
    /\ validation = Idle
    /\ PanelsIdle

NextAudit ==
    \/ \E f \in AuditFormIds : AuditForm(f)
    \/ WriteSummary
    \/ RerunAudit

SpecAudit == InitAudit /\ [][NextAudit]_vars

---------------------------------------------------------------------------
(* Properties of the coverage audit *)

InputCodes(f) == {audit.forms[f].nodes[i].code : i \in DOMAIN audit.forms[f].nodes}

OutputCodes(f) ==
    {code \in {"4.1", "4.2", "4.3", "4.4"} :
        \E i \in DOMAIN audit.forms[f].controls :
            \E j \in DOMAIN audit.forms[f].controls[i].sourceRules :
                audit.forms[f].controls[i].sourceRules[j] = code}

Partitions(report, input, output) ==
    /\ report.mapped \cup report.unmapped = input
    /\ report.mapped \cup report.extra = output
    /\ report.mapped \cap report.unmapped = {}
    /\ report.mapped \cap report.extra = {}
    /\ report.unmapped \cap report.extra = {}

IsExampleForm(f) ==
    /\ InputCodes(f) = {"4.1", "4.2", "4.3"}
    /\ OutputCodes(f) = {"4.1", "4.4"}

\* C11: every per-form coverage report partitions the form's input codes into
\* mapped and unmapped and its output codes into mapped and extra, the three
\* sets being pairwise disjoint (empty inputs and outputs included); for input
\* {4.1, 4.2, 4.3} and output {4.1, 4.4} the report is mapped {4.1},
\* unmapped {4.2, 4.3}, extra {4.4}.
C11_CoveragePartition ==
    audit.pc # "idle" =>
        \A f \in DOMAIN audit.reports :
            /\ Partitions(audit.reports[f].coverage, InputCodes(f), OutputCodes(f))
            /\ IsExampleForm(f) =>
                   audit.reports[f].coverage =
                       [mapped |-> {"4.1"}, unmapped |-> {"4.2", "4.3"}, extra |-> {"4.4"}]

C11_Witness ==
    /\ audit.pc # "idle"
    /\ \E f \in DOMAIN audit.reports :
           /\ IsExampleForm(f)
           /\ audit.reports[f].coverage.extra = {"4.4"}
    /\ \E f \in DOMAIN audit.reports :
           /\ InputCodes(f) = {}
           /\ OutputCodes(f) = {}

AllInputCodes == UNION {InputCodes(f) : f \in DOMAIN audit.forms}

AllOutputCodes == UNION {OutputCodes(f) : f \in DOMAIN audit.forms}

\* C12: the summary report is the coverage computation on the union of all
\* forms' input codes and the union of all forms' output codes, whatever the
\* order in which the forms were audited, and a rerun over unchanged inputs
\* writes the same summary again.
C12_SummaryOverUnions ==
    audit.pc = "done" =>
        /\ audit.summary.mapped = AllInputCodes \cap AllOutputCodes
        /\ audit.summary.unmapped = AllInputCodes \ AllOutputCodes
        /\ audit.summary.extra = AllOutputCodes \ AllInputCodes
        /\ audit.previous # NoReport => audit.summary = audit.previous

\* A code that is input of one form and output of the other, after a rerun.
C12_Witness ==
    /\ audit.pc = "done"
    /\ audit.previous # NoReport
    /\ \E f, g \in DOMAIN audit.forms :
           \E code \in InputCodes(f) \cap OutputCodes(g) :
               /\ code \notin OutputCodes(f)
               /\ code \notin InputCodes(g)
               /\ code \in audit.summary.mapped

---------------------------------------------------------------------------
(* Identifier patterns of the process form schema *)

Digits == {"0", "1", "2", "3", "4", "5", "6", "7", "8", "9"}

LowerLetters ==
    {"a", "b", "c", "d", "e", "f", "g", "h", "i", "j", "k", "l", "m",
     "n", "o", "p", "q", "r", "s", "t", "u", "v", "w", "x", "y", "z"}

RECURSIVE SplitOn(_, _)
\* s.split(sep) for a one-character separator
SplitOn(s, sep) ==
    IF \E i \in DOMAIN s : s[i] = sep
    THEN LET first == CHOOSE i \in DOMAIN s : s[i] = sep /\ \A j \in 1..(i - 1) : s[j] # sep
         IN <<SubSeq(s, 1, first - 1)>> \o SplitOn(SubSeq(s, first + 1, Len(s)), sep)
    ELSE <<s>>

AllDigits(s) == s # << >> /\ \A i \in DOMAIN s : s[i] \in Digits

\* ^4(_\d+)+(_[a-z])?$
MatchesControlId(s) ==
    LET parts == SplitOn(s, "_")
        n == Len(parts)
    IN /\ n >= 2
       /\ parts[1] = <<"4">>
       /\ \A i \in 2..(n - 1) : AllDigits(parts[i])
       /\ \/ AllDigits(parts[n])
          \/ n >= 3 /\ Len(parts[n]) = 1 /\ parts[n][1] \in LowerLetters

\* ^[a-z][a-z0-9-]*$
MatchesSlug(s) ==
    /\ s # << >>
    /\ s[1] \in LowerLetters
    /\ \A i \in 2..Len(s) : s[i] \in LowerLetters \cup Digits \cup {"-"}

ID_4_3 == <<"4", "_", "3">>
ID_4_9 == <<"4", "_", "9">>
ID_5_1 == <<"5", "_", "1">>
ID_4_DOT_4 == <<"4", ".", "4">>
GROUP_4_X == <<"4", "_", "x">>
GROUP_GHOST == <<"g", "h", "o", "s", "t">>
GROUP_SP == <<"s", "p">>

---------------------------------------------------------------------------
(* Stage 3.5: human-in-the-loop feedback *)

Severities == {"approved", "info", "warning", "error"}

ControlNote(comment, severity) == [comment |-> comment, severity |-> severity]

FeedbackFile(notes, controlNotes, controlOverrides, additionalControls) ==
    [form_id |-> "cdd-individuals",
     notes |-> notes,
     control_notes |-> controlNotes,
     control_overrides |-> controlOverrides,
     additional_controls |-> additionalControls]

Artifact(controlList, groupSet, ruleSet) ==
    [controls |-> controlList, groups |-> groupSet, rules |-> ruleSet]

load_feedbackAllSeverities(feedback) ==
    [notes |-> feedback.notes,
     flagged |-> feedback.control_notes]

\* Notes and the control notes flagged warning or error go to the LLM prompt.
load_feedback(feedback) ==
    [notes |-> feedback.notes,
     flagged |-> [id \in {i \in DOMAIN feedback.control_notes :
                             feedback.control_notes[i].severity \in {"warning", "error"}}
                     |-> feedback.control_notes[id]]]

\* A field-level patch onto a control.
PatchControl(control, patch) ==
    [k \in DOMAIN control \cup DOMAIN patch |->
        IF k \in DOMAIN patch THEN patch[k] ELSE control[k]]

\* The checks of the validator that apply to one control.
ValidControl(control, groupSet) ==
    /\ MatchesControlId(control["id"])
    /\ \E g \in groupSet : g.id = control["group"]

\* control_overrides are patched in, additional_controls are appended, and
\* the control notes are written to _review_metadata.
apply_feedback_overrides(artifact, feedback, now) ==
    LET patched == [i \in DOMAIN artifact.controls |->
                       IF artifact.controls[i]["id"] \in DOMAIN feedback.control_overrides
                       THEN PatchControl(artifact.controls[i],
                                         feedback.control_overrides[artifact.controls[i]["id"]])
                       ELSE artifact.controls[i]]
        additions == SelectSeq(feedback.additional_controls,
                               LAMBDA c : ValidControl(c, artifact.groups))
    IN [controls |-> patched \o additions,
        groups |-> artifact.groups,
        rules |-> artifact.rules,
        _review_metadata |-> [form_id |-> feedback.form_id,
                              last_updated |-> now,
                              control_notes |-> feedback.control_notes]]

NoArtifact == [pc |-> "none"]

MergeStart(artifact, feedback) ==
    [pc |-> "start", artifact |-> artifact, feedback |-> feedback,
     guidance |-> NoArtifact, merged |-> NoArtifact, first |-> NoArtifact]

\* applyFeedback(generatedArtifact, feedbackFile) -> (promptGuidance, mergedArtifact)
ApplyFeedback(now) ==
    /\ merge.pc = "start"
    /\ merge' = [merge EXCEPT
           !.pc = "merged",
           !.guidance = load_feedback(merge.feedback),
           !.merged = apply_feedback_overrides(merge.artifact, merge.feedback, now),
           !.first = apply_feedback_overrides(merge.artifact, merge.feedback, now)]
    /\ UNCHANGED <<viewerVars, audit, validation, panelVars>>

\* The same feedback file is applied to the merged artifact of the first run.
ReapplyFeedback(now) ==
    /\ merge.pc = "merged"
    /\ merge' = [merge EXCEPT
           !.pc = "remerged",
           !.guidance = load_feedback(merge.feedback),
           !.merged = apply_feedback_overrides(
                          Artifact(merge.merged.controls, merge.merged.groups,
                                   merge.merged.rules),
                          merge.feedback, now)]
    /\ UNCHANGED <<viewerVars, audit, validation, panelVars>>

Timestamps == {"2026-02-20T10:30:00Z", "2026-02-21T09:00:00Z"}

GeneratedArtifacts ==
    {Artifact(<<Control(ID_4_1, FALSE, YES, GROUP_G1), Control(ID_4_2, TRUE, NO, GROUP_G1_B)>>,
              DefaultGroups, {Rule(ID_4_2, SUB_DOMESTIC, "SHOW", YES)})}

NoteLists == {<< >>, <<"split 4.2 into two questions">>}

ControlNoteMaps ==
    UNION {[ids -> {ControlNote("see 4.2.3", sev) : sev \in Severities}] :
              ids \in SUBSET {ID_4_1, ID_4_2}}

ControlOverrideMaps ==
    {[id \in {} |-> NoAnswers],
     [id \in {ID_4_1} |-> [k \in {"correct-option"} |-> NO]],
     [id \in {ID_4_9} |-> [k \in {"correct-option"} |-> NO]]}

AdditionalControlLists ==
    {<< >>,
     <<Control(ID_4_3, FALSE, YES, GROUP_G1)>>,
     <<Control(ID_5_1, FALSE, YES, GROUP_G1)>>}

FeedbackFiles ==
    {FeedbackFile(n, cn, co, ac) :
        n \in NoteLists, cn \in ControlNoteMaps,
        co \in ControlOverrideMaps, ac \in AdditionalControlLists}

InitMerge ==
    /\ ViewerIdle
    /\ audit = Idle
    /\ merge \in {MergeStart(a, f) : a \in GeneratedArtifacts, f \in FeedbackFiles}
    /\ validation = Idle
    /\ PanelsIdle

NextMerge ==
    \/ \E now \in Timestamps : ApplyFeedback(now)
    \/ \E now \in Timestamps : ReapplyFeedback(now)

SpecMerge == InitMerge /\ [][NextMerge]_vars

---------------------------------------------------------------------------
(* Properties of the feedback merge *)

Flagged(id) == merge.feedback.control_notes[id].severity \in {"warning", "error"}

WithoutNotes(feedback) ==
    [feedback EXCEPT !.notes = << >>,
                     !.control_notes = [id \in {} |-> ControlNote("", "info")]]

WithoutPatches(feedback) ==
    [feedback EXCEPT !.control_overrides = [id \in {} |-> NoAnswers],
                     !.additional_controls = << >>]

SameRecords(a, b) ==
    /\ a.controls = b.controls
    /\ a.groups = b.groups
    /\ a.rules = b.rules

\* C13: the prompt guidance holds every note and every control note of
\* severity warning or error and no control note of severity approved or info;
\* notes and control notes change no control, group or rule of the merged
\* artifact; control overrides and additional controls never reach the prompt
\* guidance.
C13_FeedbackClassification ==
    merge.pc \in {"merged", "remerged"} =>
        /\ merge.guidance.notes = merge.feedback.notes
        /\ \A id \in DOMAIN merge.feedback.control_notes :
               IF Flagged(id)
               THEN /\ id \in DOMAIN merge.guidance.flagged
                    /\ merge.guidance.flagged[id] = merge.feedback.control_notes[id]
               ELSE id \notin DOMAIN merge.guidance.flagged
        /\ DOMAIN merge.guidance.flagged \subseteq DOMAIN merge.feedback.control_notes
        /\ \A now \in Timestamps :
               SameRecords(merge.first,
                           apply_feedback_overrides(merge.artifact,
                                                    WithoutNotes(merge.feedback), now))
        /\ DOMAIN merge.guidance = {"notes", "flagged"}
        /\ merge.guidance = load_feedback(WithoutPatches(merge.feedback))

C13_Witness ==
    /\ merge.pc = "merged"
    /\ merge.feedback.notes # << >>
    /\ \E id, other \in DOMAIN merge.feedback.control_notes :
           /\ merge.feedback.control_notes[id].severity = "error"
           /\ merge.feedback.control_notes[other].severity = "approved"
           /\ id \in DOMAIN merge.guidance.flagged
    /\ ID_4_1 \in DOMAIN merge.feedback.control_overrides
    /\ merge.feedback.additional_controls # << >>
    /\ Len(merge.merged.controls) > Len(merge.artifact.controls)

\* C14: applying the same feedback file to the merged artifact of a first
\* application yields the same merged artifact: no control is duplicated and
\* no override is compounded.
C14_MergeIdempotent ==
    merge.pc = "remerged" => SameRecords(merge.merged, merge.first)

---------------------------------------------------------------------------
(* Stage 3: validate_output() + strip_invalid_items() *)

IdsOf(controlSet) == {c["id"] : c \in controlSet}

GroupIdsOf(groupSet) == {g.id : g \in groupSet}

\* (1) controls whose id fails the pattern are dropped
KeepControlIds(controlSet) == {c \in controlSet : MatchesControlId(c["id"])}

\* (2) groups whose id is not a slug are dropped
KeepGroupIds(groupSet) == {g \in groupSet : MatchesSlug(g.id)}

\* (3) controls whose group is not a retained group are dropped
KeepControlRefs(controlSet, groupSet) ==
    {c \in controlSet : c["group"] \in GroupIdsOf(groupSet)}

\* Main groups are either always kept or treated like any other group.
StructurallyRequired(g) == validation.keepMain /\ g.variant = "main"

KeepReferencedGroupsStale(groupSet, controlSet) ==
    {g \in groupSet : \/ \E c \in validation.input.controls : c["group"] = g.id
                      \/ StructurallyRequired(g)}

\* (4) groups no retained control refers to are dropped (orphan groups)
KeepReferencedGroups(groupSet, controlSet) ==
    {g \in groupSet : \/ \E c \in controlSet : c["group"] = g.id
                      \/ StructurallyRequired(g)}

KeepResolvedRulesTargetOnly(ruleSet, controlSet, groupSet, subTypes) ==
    {r \in ruleSet : r.target \in IdsOf(controlSet) \cup GroupIdsOf(groupSet)}

\* (5) rules whose target or scope does not resolve are dropped
KeepResolvedRules(ruleSet, controlSet, groupSet, subTypes) ==
    {r \in ruleSet : /\ r.target \in IdsOf(controlSet) \cup GroupIdsOf(groupSet)
                     /\ r.scope \in IdsOf(controlSet) \cup subTypes}

NextPassRulesEarly(pass) ==
    CASE pass = "control_ids" -> "group_ids"
      [] pass = "group_ids" -> "rules"
      [] pass = "rules" -> "control_refs"
      [] pass = "control_refs" -> "orphans"
      [] pass = "orphans" -> "done"

\* The order of the passes.
NextPass(pass) ==
    CASE pass = "control_ids" -> "group_ids"
      [] pass = "group_ids" -> "control_refs"
      [] pass = "control_refs" -> "orphans"
      [] pass = "orphans" -> "rules"
      [] pass = "rules" -> "done"

ValidationStart(artifact, subTypes, keepMain, run, cleaned) ==
    [pc |-> "control_ids", run |-> run, input |-> artifact,
     controls |-> artifact.controls, groups |-> artifact.groups,
     rules |-> artifact.rules, subTypes |-> subTypes, keepMain |-> keepMain,
     dropped |-> {}, cleaned |-> cleaned]

DropBadControlIds ==
    /\ validation.pc = "control_ids"
    /\ validation' = [validation EXCEPT
           !.pc = NextPass("control_ids"),
           !.controls = KeepControlIds(validation.controls),
           !.dropped = @ \cup (validation.controls \ KeepControlIds(validation.controls))]
    /\ UNCHANGED <<viewerVars, audit, merge, panelVars>>

DropBadGroupIds ==
    /\ validation.pc = "group_ids"
    /\ validation' = [validation EXCEPT
           !.pc = NextPass("group_ids"),
           !.groups = KeepGroupIds(validation.groups),
           !.dropped = @ \cup (validation.groups \ KeepGroupIds(validation.groups))]
    /\ UNCHANGED <<viewerVars, audit, merge, panelVars>>

DropDanglingControls ==
    /\ validation.pc = "control_refs"
    /\ LET kept == KeepControlRefs(validation.controls, validation.groups)
       IN validation' = [validation EXCEPT
              !.pc = NextPass("control_refs"),
              !.controls = kept,
              !.dropped = @ \cup (validation.controls \ kept)]
    /\ UNCHANGED <<viewerVars, audit, merge, panelVars>>

DropOrphanGroups ==
    /\ validation.pc = "orphans"
    /\ LET kept == KeepReferencedGroups(validation.groups, validation.controls)
       IN validation' = [validation EXCEPT
              !.pc = NextPass("orphans"),
              !.groups = kept,
              !.dropped = @ \cup (validation.groups \ kept)]
    /\ UNCHANGED <<viewerVars, audit, merge, panelVars>>

DropDanglingRules ==
    /\ validation.pc = "rules"
    /\ LET kept == KeepResolvedRules(validation.rules, validation.controls,
                                     validation.groups, validation.subTypes)
       IN validation' = [validation EXCEPT
              !.pc = NextPass("rules"),
              !.rules = kept,
              !.dropped = @ \cup (validation.rules \ kept)]
    /\ UNCHANGED <<viewerVars, audit, merge, panelVars>>

\* The cleaned artifact is validated again.
Revalidate ==
    /\ validation.pc = "done"
    /\ validation.run = "first"
    /\ LET cleaned == Artifact(validation.controls, validation.groups, validation.rules)
       IN validation' = ValidationStart(cleaned, validation.subTypes,
                                        validation.keepMain, "again", cleaned)
    /\ UNCHANGED <<viewerVars, audit, merge, panelVars>>

CandidateControls ==
    {Control(ID_4_1, FALSE, YES, GROUP_G1),
     Control(ID_4_2, FALSE, NA, GROUP_G1_B),
     Control(ID_5_1, FALSE, YES, GROUP_SP),
     Control(ID_4_3, FALSE, YES, GROUP_4_X),
     Control(ID_4_9, FALSE, YES, GROUP_GHOST)}

CandidateGroupSets ==
    {{Group(GROUP_G1, "main"), Group(GROUP_SP, "subprocess")} \cup gs :
        gs \in SUBSET {Group(GROUP_G1_B, "subprocess"), Group(GROUP_4_X, "main")}}

CandidateRules ==
    {Rule(ID_4_1, SUB_DOMESTIC, "SHOW", YES),
     Rule(GROUP_SP, SUB_DOMESTIC, "SHOW", YES),
     Rule(ID_4_1, ID_4_3, "SHOW", YES)}

InitValidate ==
    /\ ViewerIdle
    /\ audit = Idle
    /\ merge = Idle
    /\ validation \in
           {ValidationStart(Artifact(cs, gs, rs), SubTypeIds, keepMain, "first", NoArtifact) :
               cs \in SUBSET CandidateControls, gs \in CandidateGroupSets,
               rs \in SUBSET CandidateRules, keepMain \in BOOLEAN}
    /\ PanelsIdle

NextValidate ==
    \/ DropBadControlIds
    \/ DropBadGroupIds
    \/ DropDanglingControls
    \/ DropOrphanGroups
    \/ DropDanglingRules
    \/ Revalidate

\* The validator runs to completion once started.
SpecValidate == InitValidate /\ [][NextValidate]_vars /\ WF_vars(NextValidate)

---------------------------------------------------------------------------
(* Properties of the validator *)

Validated == validation.pc = "done"

\* C15: the cleaned artifact is referentially closed (control ids match the
\* control id pattern, group ids are slugs, every control's group is a retained
\* group, every rule's target and scope resolve), and the validator only
\* removes records: what it retains are unchanged members of the input, so no
\* control is given a group it did not have.
C15_CleanedIsClosed ==
    /\ validation.pc # "idle" =>
           /\ validation.controls \subseteq validation.input.controls
           /\ validation.groups \subseteq validation.input.groups
           /\ validation.rules \subseteq validation.input.rules
    /\ Validated =>
           /\ \A c \in validation.controls :
                  /\ MatchesControlId(c["id"])
                  /\ \E g \in validation.groups : g.id = c["group"]
           /\ \A g \in validation.groups : MatchesSlug(g.id)
           /\ \A r \in validation.rules :
                  /\ \/ \E c \in validation.controls : c["id"] = r.target
                     \/ \E g \in validation.groups : g.id = r.target
                  /\ \/ \E c \in validation.controls : c["id"] = r.scope
                     \/ r.scope \in validation.subTypes

\* Every kind of violation was in the candidate and something is retained.
C15_Witness ==
    /\ Validated
    /\ validation.run = "first"
    /\ validation.input.controls = CandidateControls
    /\ validation.input.rules = CandidateRules
    /\ Group(GROUP_4_X, "main") \in validation.input.groups
    /\ IdsOf(validation.controls) = {ID_4_1, ID_4_2}
    /\ validation.rules = {Rule(ID_4_1, SUB_DOMESTIC, "SHOW", YES)}

\* C16: no subprocess group that no retained control refers to is in the
\* cleaned artifact, also when its only controls were dropped earlier in the
\* same validation.
C16_NoOrphanSurvives ==
    Validated =>
        \A g \in validation.groups :
            g.variant = "subprocess" => \E c \in validation.controls : c["group"] = g.id

\* Group sp was referenced in the candidate, by a control that was dropped.
C16_Witness ==
    /\ Validated
    /\ validation.run = "first"
    /\ Group(GROUP_SP, "subprocess") \in validation.input.groups
    /\ \E c \in validation.input.controls : c["group"] = GROUP_SP
    /\ Group(GROUP_SP, "subprocess") \notin validation.groups
    /\ Group(GROUP_G1_B, "subprocess") \in validation.groups

OnlyRemoves ==
    validation'.pc # "control_ids" =>
        /\ validation'.controls \subseteq validation.controls
        /\ validation'.groups \subseteq validation.groups
        /\ validation'.rules \subseteq validation.rules

FixedPoint ==
    (Validated /\ validation.run = "again") =>
        /\ validation.dropped = {}
        /\ Artifact(validation.controls, validation.groups, validation.rules)
               = validation.cleaned

\* C20: every validation terminates, each pass only removes records, and
\* validating the cleaned artifact again drops nothing and reports no
\* violation.
C20_TerminatesAtFixedPoint ==
    /\ <>(Validated /\ validation.run = "first")
    /\ <>(Validated /\ validation.run = "again")
    /\ [][OnlyRemoves]_vars
    /\ []FixedPoint

\* A second validation of an artifact from which the first one dropped a
\* control, a group and a rule.
C20_Witness ==
    /\ Validated
    /\ validation.run = "again"
    /\ validation.dropped = {}
    /\ validation.input.controls # CandidateControls
    /\ validation.input.groups \notin CandidateGroupSets
    /\ validation.input.rules # {}
    /\ validation.input.rules # CandidateRules

---------------------------------------------------------------------------
(* Properties of the recompute pass *)

RenderedFromSnapshot ==
    /\ status = [id \in ControlIds |-> getControlStatus(ControlById(id), answers)]
    /\ visible = [id \in Targets |->
                     checkVisibility(id, rules, introAnswers, answers)]

AnswerEvent == answers' # answers \/ introAnswers' # introAnswers

---------------------------------------------------------------------------
(* Form-link blocks: collapsible panels that fetch the target form *)

LinkTargets == {"verification-documents", "verification-electronic", "risk-assessment"}

LinksRendered ==
    [pc |-> "rendered",
     expanded |-> [t \in LinkTargets |-> FALSE],
     cache |-> [t \in LinkTargets |-> "none"],
     inFlight |-> [t \in LinkTargets |-> 0]]

NeedsFetchUnlessLoaded(t) == links.cache[t] # "loaded"

\* The target form is fetched on the first expand only.
NeedsFetch(t) == links.cache[t] = "none"

\* The panel of a link is expanded.
ExpandLink(t) ==
    /\ links.pc = "rendered"
    /\ ~links.expanded[t]
    /\ links' = IF NeedsFetch(t)
                THEN [links EXCEPT !.expanded[t] = TRUE,
                                   !.cache[t] = "loading",
                                   !.inFlight[t] = @ + 1]
                ELSE [links EXCEPT !.expanded[t] = TRUE]
    /\ UNCHANGED <<viewerVars, pipelineVars, saver>>

\* The panel is collapsed; a fetch in flight is left alone.
CollapseLink(t) ==
    /\ links.pc = "rendered"
    /\ links.expanded[t]
    /\ links' = [links EXCEPT !.expanded[t] = FALSE]
    /\ UNCHANGED <<viewerVars, pipelineVars, saver>>

\* The fetched form JSON arrives and its controls are rendered inline.
FetchCompletes(t) ==
    /\ links.pc = "rendered"
    /\ links.inFlight[t] > 0
    /\ links' = [links EXCEPT !.cache[t] = "loaded",
                              !.inFlight[t] = @ - 1]
    /\ UNCHANGED <<viewerVars, pipelineVars, saver>>

InitLinks ==
    /\ ViewerIdle
    /\ PipelineIdle
    /\ links = LinksRendered
    /\ saver = Idle

NextLinks ==
    \/ \E t \in LinkTargets : ExpandLink(t)
    \/ \E t \in LinkTargets : CollapseLink(t)
    \/ \E t \in LinkTargets : FetchCompletes(t)

SpecLinks == InitLinks /\ [][NextLinks]_vars

---------------------------------------------------------------------------
(* Properties of the form-link fetches *)

Expands(t) == ~links.expanded[t] /\ links'.expanded[t]

\* C18: at most one fetch per link target is in flight; expanding a link
\* whose fetch is in flight issues no second fetch; a link never fetched can
\* be expanded and its fetch issued, and a fetch in flight can complete,
\* whatever the other targets' fetches are doing.
C18_OneFetchPerTarget ==
    /\ [](\A t \in LinkTargets :
              /\ links.inFlight[t] <= 1
              /\ (links.cache[t] = "none" /\ ~links.expanded[t]) => ENABLED ExpandLink(t)
              /\ links.inFlight[t] > 0 => ENABLED FetchCompletes(t))
    /\ [][\A t \in LinkTargets :
              /\ (Expands(t) /\ links.inFlight[t] > 0) =>
                     links'.inFlight[t] = links.inFlight[t]
              /\ (Expands(t) /\ links.cache[t] = "none") => links'.inFlight[t] = 1]_vars

\* Two fetches in flight at once, one of them for a panel collapsed meanwhile,
\* next to a target already loaded.
C18_Witness ==
    \E t1, t2, t3 \in LinkTargets :
        /\ t1 # t2
        /\ links.inFlight[t1] = 1 /\ ~links.expanded[t1]
        /\ links.inFlight[t2] = 1 /\ links.expanded[t2]
        /\ links.cache[t3] = "loaded"

---------------------------------------------------------------------------
(* Feedback editor: debounced auto-save of runs/1/feedback/{form_id}.json *)

\* The quiet period of the auto-save, in clock ticks.
QuietTicks == 2

\* Largest number of edits of a session.
MaxEdits == 3

FeedbackFormIds == {"cdd-individuals", "cdd-companies"}

SaverOpen ==
    [pc |-> "open",
     local |-> [f \in FeedbackFormIds |-> 0],      \* edits made in the editor
     written |-> [f \in FeedbackFormIds |-> 0],    \* edits the file on disk holds
     writes |-> [f \in FeedbackFormIds |-> 0],     \* writes of the file so far
     armed |-> [f \in FeedbackFormIds |-> FALSE],  \* a flush timer is pending
     remaining |-> [f \in FeedbackFormIds |-> 0],  \* ticks until it fires
     sinceEdit |-> [f \in FeedbackFormIds |-> QuietTicks]]  \* ticks since the last edit

Edits == saver.local["cdd-individuals"] + saver.local["cdd-companies"]

EditFeedbackNoReschedule(f) ==
    /\ saver.pc = "open"
    /\ Edits < MaxEdits
    /\ saver' = [saver EXCEPT
           !.local[f] = @ + 1,
           !.armed[f] = TRUE,
           !.remaining[f] = IF saver.armed[f] THEN @ ELSE QuietTicks,
           !.sinceEdit[f] = 0]
    /\ UNCHANGED <<viewerVars, pipelineVars, links>>

\* An edit of a form's feedback: the pending flush of that form is cancelled
\* and scheduled anew.
EditFeedback(f) ==
    /\ saver.pc = "open"
    /\ Edits < MaxEdits
    /\ saver' = [saver EXCEPT
           !.local[f] = @ + 1,
           !.armed[f] = TRUE,
           !.remaining[f] = QuietTicks,
           !.sinceEdit[f] = 0]
    /\ UNCHANGED <<viewerVars, pipelineVars, links>>

\* Time passes; a timer that is due fires before more time passes.
Tick ==
    /\ saver.pc = "open"
    /\ \A f \in FeedbackFormIds : saver.armed[f] => saver.remaining[f] > 0
    /\ saver' = [saver EXCEPT
           !.remaining = [f \in FeedbackFormIds |->
                             IF saver.armed[f] THEN saver.remaining[f] - 1
                             ELSE saver.remaining[f]],
           !.sinceEdit = [f \in FeedbackFormIds |->
                             IF saver.sinceEdit[f] < QuietTicks
                             THEN saver.sinceEdit[f] + 1
                             ELSE saver.sinceEdit[f]]]
    /\ UNCHANGED <<viewerVars, pipelineVars, links>>

\* The flush timer of a form fires: its feedback file is written.
Flush(f) ==
    /\ saver.pc = "open"
    /\ saver.armed[f]
    /\ saver.remaining[f] = 0
    /\ saver' = [saver EXCEPT
           !.written[f] = saver.local[f],
           !.writes[f] = @ + 1,
           !.armed[f] = FALSE]
    /\ UNCHANGED <<viewerVars, pipelineVars, links>>

InitSaver ==
    /\ ViewerIdle
    /\ PipelineIdle
    /\ links = Idle
    /\ saver = SaverOpen

NextSaver ==
    \/ \E f \in FeedbackFormIds : EditFeedback(f)
    \/ Tick
    \/ \E f \in FeedbackFormIds : Flush(f)

\* Time passes and due timers fire.
SpecSaver ==
    /\ InitSaver
    /\ [][NextSaver]_vars
    /\ WF_vars(Tick)
    /\ \A f \in FeedbackFormIds : WF_vars(Flush(f))

---------------------------------------------------------------------------
(* Properties of the debounced auto-save *)

Edited(f) == saver'.local[f] # saver.local[f]

Written(f) == saver'.writes[f] # saver.writes[f]

Saved(f) == ~saver.armed[f] /\ saver.written[f] = saver.local[f]

EditReschedules ==
    \A f \in FeedbackFormIds :
        Edited(f) => saver'.armed[f] /\ saver'.remaining[f] = QuietTicks

WriteAfterQuietPeriod ==
    \A f \in FeedbackFormIds :
        Written(f) =>
            /\ saver.sinceEdit[f] = QuietTicks
            /\ saver.written[f] # saver.local[f]
            /\ saver'.writes[f] = saver.writes[f] + 1
            /\ saver'.written[f] = saver.local[f]
            /\ Saved(f)'

EditsAreIndependent ==
    \A f, g \in FeedbackFormIds :
        (Edited(f) /\ g # f) =>
            /\ saver'.armed[g] = saver.armed[g]
            /\ saver'.remaining[g] = saver.remaining[g]
            /\ saver'.written[g] = saver.written[g]
            /\ saver'.writes[g] = saver.writes[g]

---------------------------------------------------------------------------
(* Status evaluation of two controls over one answer map *)

ID_4_1_DETAIL == DetailKey(ID_4_1)

IsolationIds == {ID_4_1, ID_4_1_a, ID_4_1_DETAIL}

\* Two controls of one form; an id outside the control id pattern included.
IsolationControlSets ==
    {cs \in {{Control(a, TRUE, YES, GROUP_G1), Control(b, TRUE, YES, GROUP_G1)} :
                 a \in IsolationIds, b \in IsolationIds} : Cardinality(cs) = 2}

IsolationInputs ==
    {<<id, v>> : id \in IsolationIds, v \in {YES, NO}}
    \cup {<<DetailKey(id), v>> : id \in IsolationIds, v \in {YES, BLANK}}

InitIsolation ==
    /\ controls \in IsolationControlSets
    /\ groups = DefaultGroups
    /\ rules = {}
    /\ InitRendered
    /\ PipelineIdle
    /\ PanelsIdle

NextIsolation ==
    \/ \E in \in IsolationInputs : SetAnswer(in[1], in[2])
    \/ \E in \in IsolationInputs : ClearAnswer(in[1])

SpecIsolation == InitIsolation /\ [][NextIsolation]_vars

---------------------------------------------------------------------------
(* Properties of the answer keys of distinct controls *)

PatternPair(c, d) ==
    /\ c["id"] # d["id"]
    /\ MatchesControlId(c["id"])
    /\ MatchesControlId(d["id"])

KeysOf(c) == {c["id"], DetailKey(c["id"])}

\* C21: for two controls with distinct ids that both match the control id
\* pattern, the detail key of one is neither the answer key nor the detail
\* key of the other, and a step that sets, changes or clears only the answer
\* or the detail answer of one leaves the status getControlStatus returns for
\* the other unchanged.
C21_DetailKeysDoNotInterfere ==
    /\ [](\A c, d \in controls : PatternPair(c, d) => DetailKey(c["id"]) \notin KeysOf(d))
    /\ [][\A c, d \in controls :
              (PatternPair(c, d) /\ ChangedKeys # {} /\ ChangedKeys \subseteq KeysOf(c)) =>
                  /\ getControlStatus(d, answers') = getControlStatus(d, answers)
                  /\ status'[d["id"]] = status[d["id"]]]_vars

\* Both ids match the pattern; the detail answer of 4_1 is given, 4_1_a still
\* waits for its own.
C21_Witness ==
    /\ IdsOf(controls) = {ID_4_1, ID_4_1_a}
    /\ \A c, d \in controls : c # d => PatternPair(c, d)
    /\ DetailKey(ID_4_1) \in DOMAIN answers
    /\ status[ID_4_1] = "success"
    /\ status[ID_4_1_a] = "warning"

=============================================================================
